---- MODULE Spec2Model ----
(***************************************************************************)
(* Invoice computation and lifecycle engine of EE-inv-v2:                  *)
(*   app/repositories/invoice_repo.py   InvoiceRepository                  *)
(*   app/api/invoices.py                authenticated invoice routes       *)
(*   app/api/public_invoice.py          public share-link routes           *)
(*   app/repositories/auth_repo.py      one-time-code verification         *)
(*   app/middleware/auth.py             bearer credential check            *)
(*                                                                         *)
(* Money.  The columns of invoice_new, invoice_new_item and                *)
(* invoice_payment_new are Numeric(15, 2): a stored amount is an integer   *)
(* number of cents.  Inside a request the code computes with Python        *)
(* Decimal, which is exact; such a value is written here as an integer     *)
(* number of pips (1 cent = PipsPerCent pips) or, for the tax product, of  *)
(* micros (1 pip = 100 micros).  A commit stores a Decimal into a          *)
(* Numeric(15, 2) column, which rounds it to the cent, ties away from      *)
(* zero (PostgreSQL numeric).                                              *)
(*                                                                         *)
(* Session.  Sessions are made with autoflush=False                        *)
(* (app/railway_db.py:98-102): a query or a lazy load of invoice.items     *)
(* inside a request sees the rows of the database, with the attribute      *)
(* values of objects already changed in the session, but neither a pending *)
(* row added by invoice_id nor the removal of a row only marked deleted.   *)
(***************************************************************************)
EXTENDS Integers, Sequences, FiniteSets, TLC

VARIABLES
    inv,          \* invoice_new rows: bubble_id -> row
    items,        \* invoice_new_item rows: bubble_id -> row
    payments,     \* invoice_payment_new rows, in insertion order
    customers,    \* customer rows: name -> row
    fresh,        \* next unused bubble_id / share token / audit_log id
    now,          \* datetime.now(timezone.utc), in days
    otps,         \* rows of the otps / auth_hub_otps tables (written by Auth Hub)
    sent,         \* one-time codes handed to whatsapp_service.send_otp
    credentials,  \* edit credentials returned by verify_edit_access
    accepted,     \* uses of an edit credential that get_current_user let through
    last,         \* the last request and its response
    served,       \* the number of requests served
    pc,           \* concurrent builds: position of each worker
    loc           \* concurrent builds: locals of each worker

ledgerVars == <<inv, items, payments, customers, fresh>>
shareVars  == <<now, otps, sent, credentials>>
raceVars   == <<pc, loc>>
vars == <<inv, items, payments, customers, fresh, now, otps, sent, credentials, accepted, last, served, pc, loc>>

\* Python's None, for a string-valued field.
None == "None"
\* An optional number that was not given (valid numbers here are >= 0), and
\* a timestamp column that is NULL.
Omitted == -1
Never   == -1
\* An optional string that is None or empty (both false in Python).
NoPhone == <<>>

(***************************************************************************)
(* Bounds of the model.                                                    *)
(***************************************************************************)
MaxInvoices == 2
MaxItems    == 4
MaxPayments == 2
MaxTime     == 9
MaxRequests == 4

(***************************************************************************)
(* Program constants.                                                      *)
(***************************************************************************)
DEFAULT_SST_RATE       == 8
SHARE_LINK_EXPIRY_DAYS == 7
INVOICE_NUMBER_LENGTH  == 6
PipsPerCent            == 100

(***************************************************************************)
(* Decimal arithmetic.                                                     *)
(***************************************************************************)
Abs(n) == IF n < 0 THEN -n ELSE n

\* The value n/d stored into a Numeric(15, 2) column whose unit is 1:
\* rounded to the nearest integer, ties away from zero.
RoundHalfAway(n, d) ==
    LET q == Abs(n) \div d
        r == Abs(n) % d
        m == IF 2 * r >= d THEN q + 1 ELSE q
    IN IF n < 0 THEN -m ELSE m

\* A Decimal of p pips committed to a Numeric(15, 2) column, in cents.
numeric_15_2(p) == RoundHalfAway(p, PipsPerCent)

\* A stored amount of c cents read back as a Decimal, in pips.
AsDecimal(c) == c * PipsPerCent

RECURSIVE SumOver(_, _)
\* sum(f[k] for k in S)
SumOver(f, S) ==
    IF S = {} THEN 0
    ELSE LET k == CHOOSE x \in S : TRUE
         IN f[k] + SumOver(f, S \ {k})

\* qty * unit_price * (1 - discount_percent / Decimal(100)), in pips;
\* qty in hundredths, unit_price in cents, discount_percent a whole percent.
line_total(qty, unit_price, discount_percent) ==
    (qty * unit_price * (100 - discount_percent)) \div 100

\* The inputs whose line total has at most four decimal places, so that
\* line_total is the exact Decimal product.
ExactLine(qty, unit_price, discount_percent) ==
    (qty * unit_price * (100 - discount_percent)) % 100 = 0

(***************************************************************************)
(* Strings, as sequences of one-character strings.                         *)
(***************************************************************************)
DigitChars == <<"0", "1", "2", "3", "4", "5", "6", "7", "8", "9">>

IsDigit(c) == \E i \in 1..10 : DigitChars[i] = c

DigitVal(c) == (CHOOSE i \in 1..10 : DigitChars[i] = c) - 1

\* Characters in code-point order: '+' < '-' < digits < letters.
CharOrder == <<"+", "-", "0", "1", "2", "3", "4", "5", "6", "7", "8", "9", "I", "N", "V">>

CharRank(c) == CHOOSE i \in 1..Len(CharOrder) : CharOrder[i] = c

RECURSIVE StrLess(_, _)
\* a < b in the order of ORDER BY invoice_number
StrLess(a, b) ==
    IF b = <<>> THEN FALSE
    ELSE IF a = <<>> THEN TRUE
    ELSE IF a[1] = b[1] THEN StrLess(Tail(a), Tail(b))
    ELSE CharRank(a[1]) < CharRank(b[1])

StartsWith(s, p) == Len(s) >= Len(p) /\ SubSeq(s, 1, Len(p)) = p

RECURSIVE str_replace(_, _)
\* s.replace(p, "")
str_replace(s, p) ==
    IF s = <<>> THEN <<>>
    ELSE IF StartsWith(s, p) THEN str_replace(SubSeq(s, Len(p) + 1, Len(s)), p)
    ELSE <<s[1]>> \o str_replace(Tail(s), p)

RECURSIVE DigitsValue(_)
DigitsValue(s) ==
    IF s = <<>> THEN 0 ELSE 10 * DigitsValue(SubSeq(s, 1, Len(s) - 1)) + DigitVal(s[Len(s)])

\* int(s): Omitted stands for the ValueError of a string that is no number.
int(s) ==
    IF s # <<>> /\ \A i \in 1..Len(s) : IsDigit(s[i]) THEN DigitsValue(s) ELSE Omitted

RECURSIVE str(_)
\* str(n) for n >= 0
str(n) == IF n < 10 THEN <<DigitChars[n + 1]>> ELSE str(n \div 10) \o <<DigitChars[(n % 10) + 1]>>

RECURSIVE zfill(_, _)
zfill(s, width) == IF Len(s) >= width THEN s ELSE zfill(<<"0">> \o s, width)

\* settings.INVOICE_NUMBER_PREFIX + "-"
INVOICE_NUMBER_PREFIX == <<"I", "N", "V", "-">>

(***************************************************************************)
(* Catalog rows read by the engine (package and voucher tables).           *)
(***************************************************************************)
Package == [p \in {"pkg_a", "pkg_b"} |->
              IF p = "pkg_a" THEN [price |-> 100000] ELSE [price |-> 1005]]

PackageIds == {"pkg_a", "pkg_b", "pkg_missing"}

Voucher == [v \in {"V50", "VPCT", "VOLD", "VZERO"} |->
              CASE v = "V50"   -> [discount_amount |-> 5000,    discount_percent |-> 10,      active |-> TRUE]
                [] v = "VPCT"  -> [discount_amount |-> Omitted, discount_percent |-> 5,       active |-> TRUE]
                [] v = "VOLD"  -> [discount_amount |-> 5000,    discount_percent |-> Omitted, active |-> FALSE]
                [] v = "VZERO" -> [discount_amount |-> 0,       discount_percent |-> 10,      active |-> TRUE]]

\* Voucher codes a request can carry; "VNONE" is no row of the table.
VoucherCodes == {None, "V50", "VPCT", "VOLD", "VZERO", "VNONE"}

\* Rows of the invoice_template table, with the apply_sst flag the template
\* routes read and write (app/api/templates.py).
Template == [t \in {"tpl_default", "tpl_tax"} |->
               IF t = "tpl_default" THEN [apply_sst |-> FALSE, is_default |-> TRUE]
               ELSE [apply_sst |-> TRUE, is_default |-> FALSE]]

\* Python truth of an optional amount: None and 0 are false.
Truthy(x) == x # Omitted /\ x # 0

(***************************************************************************)
(* InvoiceRepository._generate_invoice_number                             *)
(***************************************************************************)
\* order_by(InvoiceNew.invoice_number.desc()).first() over the rows visible
\* to the reading transaction (numbers is not empty).
last_invoice_number(numbers) ==
    CHOOSE n \in numbers : \A m \in numbers : m = n \/ StrLess(m, n)

generate_invoice_number(numbers) ==
    LET last_num == IF numbers = {} THEN Omitted
                    ELSE int(str_replace(last_invoice_number(numbers), INVOICE_NUMBER_PREFIX))
        next_num == IF last_num = Omitted THEN 1 ELSE last_num + 1
    IN INVOICE_NUMBER_PREFIX \o zfill(str(next_num), INVOICE_NUMBER_LENGTH)

InvoiceNumbers == {inv[i].invoice_number : i \in DOMAIN inv}

(***************************************************************************)
(* InvoiceRepository._calculate_invoice_totals, followed by the commit     *)
(* that stores the computed Decimals into the Numeric(15, 2) columns.      *)
(* seen: the items the session shows for invoice.items, id -> in-memory    *)
(* total_price (pips) and item_type.                                       *)
(***************************************************************************)
AbsTotalOfType(seen, type) ==
    SumOver([k \in DOMAIN seen |-> Abs(seen[k].total_price)],
            {k \in DOMAIN seen : seen[k].item_type = type})

calculate_invoice_totals(invoice, seen) ==
    LET subtotal       == SumOver([k \in DOMAIN seen |-> seen[k].total_price], DOMAIN seen)
        taxable_amount == subtotal
        \* taxable_amount * (sst_rate / 100), in micros
        sst_micros     == IF taxable_amount > 0 THEN taxable_amount * invoice.sst_rate ELSE 0
        total_micros   == taxable_amount * 100 + sst_micros
    IN [invoice EXCEPT
          !.subtotal        = numeric_15_2(subtotal),
          !.discount_amount = numeric_15_2(AbsTotalOfType(seen, "discount")),
          !.voucher_amount  = numeric_15_2(AbsTotalOfType(seen, "voucher")),
          !.sst_amount      = RoundHalfAway(sst_micros, 100 * PipsPerCent),
          !.total_amount    = RoundHalfAway(total_micros, 100 * PipsPerCent)]

\* The rows of invoice i in the database, as a session reads them.
ItemsOf(i) == {k \in DOMAIN items : items[k].invoice_id = i}

StoredView(S) ==
    [k \in S |-> [total_price |-> AsDecimal(items[k].total_price),
                  item_type   |-> items[k].item_type]]

(***************************************************************************)
(* Requests.                                                               *)
(***************************************************************************)
InvIds  == 1..MaxInvoices
ItemIds == 1..MaxItems

\* Phone numbers as typed; PhoneA and PhoneADashed have the same digits.
PhoneA       == <<"1", "2">>
PhoneADashed == <<"+", "1", "-", "2">>
PhoneB       == <<"3", "4">>

\* InvoiceOnTheFlyRequest after the route has parsed discount_given:
\* amounts in cents, discount_percent a whole percent.
BuildRequests ==
    { [package_id |-> "pkg_a", discount_fixed |-> 50000, discount_percent |-> 10,
       apply_sst |-> TRUE, voucher_code |-> None, agent_markup |-> 0,
       customer_name |-> None, customer_phone |-> PhoneADashed,
       epp_fee_amount |-> Omitted, epp_fee_description |-> None,
       template_id |-> None],
      [package_id |-> "pkg_b", discount_fixed |-> 0, discount_percent |-> 10,
       apply_sst |-> TRUE, voucher_code |-> "VOLD", agent_markup |-> 0,
       customer_name |-> "Ali", customer_phone |-> PhoneB,
       epp_fee_amount |-> 2000, epp_fee_description |-> None,
       template_id |-> None],
      [package_id |-> "pkg_b", discount_fixed |-> 50000, discount_percent |-> 0,
       apply_sst |-> FALSE, voucher_code |-> "V50", agent_markup |-> 100,
       customer_name |-> None, customer_phone |-> NoPhone,
       epp_fee_amount |-> 2000, epp_fee_description |-> "EPP",
       template_id |-> None],
      [package_id |-> "pkg_a", discount_fixed |-> 0, discount_percent |-> 0,
       apply_sst |-> TRUE, voucher_code |-> None, agent_markup |-> 0,
       customer_name |-> None, customer_phone |-> NoPhone,
       epp_fee_amount |-> Omitted, epp_fee_description |-> None,
       template_id |-> None],
      [package_id |-> "pkg_missing", discount_fixed |-> 0, discount_percent |-> 0,
       apply_sst |-> FALSE, voucher_code |-> None, agent_markup |-> 0,
       customer_name |-> None, customer_phone |-> NoPhone,
       epp_fee_amount |-> Omitted, epp_fee_description |-> None,
       template_id |-> None] }

\* InvoiceItemCreate: qty > 0 (hundredths), unit_price >= 0 (cents),
\* 0 <= discount_percent <= 100.
ItemCreates ==
    { [qty |-> 100, unit_price |-> 1000, discount_percent |-> 0],
      [qty |-> 50,  unit_price |-> 25,   discount_percent |-> 0] }

\* InvoiceItemUpdate: the same constraints, every field optional.
ItemUpdates ==
    { [qty |-> Omitted, unit_price |-> 500,     discount_percent |-> Omitted],
      [qty |-> 50,      unit_price |-> Omitted, discount_percent |-> Omitted],
      [qty |-> Omitted, unit_price |-> Omitted, discount_percent |-> 50] }

\* InvoicePaymentCreate.amount > 0, a Decimal of any scale, in pips:
\* 200.00, 232.00, 231.996 and 0.004.
PaymentAmounts == {2000000, 2320000, 2319960, 40}

\* InvoiceUpdate.status is any string.
StatusValues == {"draft", "sent", "viewed", "paid", "partial", "overdue", "cancelled"}

(***************************************************************************)
(* InvoiceRepository.create_on_the_fly                                     *)
(***************************************************************************)
\* 3. Handle Voucher: the voucher amount, in pips.
voucher_amount(req) ==
    IF req.voucher_code # None /\ req.voucher_code \in DOMAIN Voucher
          /\ Voucher[req.voucher_code].active
    THEN LET voucher == Voucher[req.voucher_code]
         IN IF Truthy(voucher.discount_amount) THEN AsDecimal(voucher.discount_amount)
            ELSE IF Truthy(voucher.discount_percent)
                 THEN Package[req.package_id].price * voucher.discount_percent
                 ELSE 0
    ELSE 0

\* description is the f-string of the code, its argument left by name.
MemItem(description, unit_price, item_type, sort_order) ==
    [description |-> description,
     qty |-> 100, unit_price |-> unit_price, discount_percent |-> 0,
     total_price |-> unit_price, item_type |-> item_type, sort_order |-> sort_order]

\* A build whose percent discount is taken on what the fixed discount
\* leaves of the price with markup.
on_the_fly_items_percent_on_remainder(req) ==
    LET unit_price == AsDecimal(Package[req.package_id].price + req.agent_markup)
        remainder  == Package[req.package_id].price + req.agent_markup - req.discount_fixed
    IN <<MemItem("package.invoice_desc", unit_price, "package", 0)>>
       \o (IF req.discount_fixed > 0
           THEN <<MemItem("Discount (RM {discount_fixed})",
                          -AsDecimal(req.discount_fixed), "discount", 100)>> ELSE <<>>)
       \o (IF req.discount_percent > 0
           THEN <<MemItem("Discount ({discount_percent}%)",
                          -(remainder * req.discount_percent), "discount", 101)>> ELSE <<>>)

\* A build that shows the markup as a line of its own.
on_the_fly_items_markup_line(req) ==
    <<MemItem("package.invoice_desc", AsDecimal(Package[req.package_id].price), "package", 0),
      MemItem("Markup (RM {agent_markup})", AsDecimal(req.agent_markup), "markup", 1)>>

\* 6.-6d. The items attached to the new invoice, in memory (amounts in pips).
on_the_fly_items(req) ==
    LET package        == Package[req.package_id]
        unit_price     == AsDecimal(package.price + req.agent_markup)
        has_fixed      == Truthy(req.discount_fixed) /\ req.discount_fixed > 0
        has_percent    == Truthy(req.discount_percent) /\ req.discount_percent > 0
        percent_amount == package.price * req.discount_percent
        has_voucher    == req.voucher_code # None /\ voucher_amount(req) > 0
        has_epp        == Truthy(req.epp_fee_amount) /\ req.epp_fee_amount > 0
                          /\ req.epp_fee_description # None
    IN <<MemItem("package.invoice_desc", unit_price, "package", 0)>>
       \o (IF has_fixed
           THEN <<MemItem("Discount (RM {discount_fixed})",
                          -AsDecimal(req.discount_fixed), "discount", 100)>> ELSE <<>>)
       \o (IF has_percent
           THEN <<MemItem("Discount ({discount_percent}%)",
                          -percent_amount, "discount", IF has_fixed THEN 101 ELSE 100)>> ELSE <<>>)
       \o (IF has_voucher
           THEN <<MemItem("Voucher ({voucher_code})",
                          -voucher_amount(req), "voucher", 101)>> ELSE <<>>)
       \o (IF has_epp
           THEN <<MemItem("Bank Processing Fee ({epp_fee_description})",
                          AsDecimal(req.epp_fee_amount), "epp_fee", 200)>> ELSE <<>>)

\* 2. Handle Customer: the customer table after the lookup by name.
on_the_fly_customers(req) ==
    IF req.customer_name # None /\ req.customer_name \notin DOMAIN customers
    THEN customers @@ (req.customer_name :> [phone |-> req.customer_phone])
    ELSE customers

on_the_fly_phone(req) ==
    IF req.customer_name # None
    THEN on_the_fly_customers(req)[req.customer_name].phone
    ELSE req.customer_phone

\* 5. The InvoiceNew object before its totals are calculated.
on_the_fly_invoice(req, invoice_number, share_token) ==
    [invoice_number          |-> invoice_number,
     customer_phone_snapshot |-> on_the_fly_phone(req),
     package_id              |-> req.package_id,
     voucher_code            |-> req.voucher_code,
     template_id             |-> req.template_id,
     discount_fixed          |-> req.discount_fixed,
     discount_percent        |-> req.discount_percent,
     agent_markup            |-> req.agent_markup,
     sst_rate                |-> IF req.apply_sst THEN DEFAULT_SST_RATE ELSE 0,
     subtotal                |-> 0,
     discount_amount         |-> 0,
     voucher_amount          |-> numeric_15_2(voucher_amount(req)),
     sst_amount              |-> 0,
     total_amount            |-> 0,
     status                  |-> "draft",
     paid_amount             |-> 0,
     share_token             |-> share_token,
     share_enabled           |-> TRUE,
     share_expires_at        |-> now + SHARE_LINK_EXPIRY_DAYS,
     share_access_count      |-> 0,
     sent_at                 |-> Never,
     viewed_at               |-> Never,
     paid_at                 |-> Never]

\* An in-memory item as its row is stored.
StoredItem(invoice_id, m) ==
    [invoice_id       |-> invoice_id,
     description      |-> m.description,
     qty              |-> m.qty,
     unit_price       |-> numeric_15_2(m.unit_price),
     discount_percent |-> m.discount_percent,
     total_price      |-> numeric_15_2(m.total_price),
     item_type        |-> m.item_type,
     sort_order       |-> m.sort_order]

\* The rows create_on_the_fly commits for request req.
on_the_fly_rows(req, bubble_id, invoice_number, share_token, first_item) ==
    LET mem  == on_the_fly_items(req)
        ids  == first_item .. (first_item + Len(mem) - 1)
        seen == [k \in ids |-> mem[k - first_item + 1]]
    IN [invoice |-> calculate_invoice_totals(
                        on_the_fly_invoice(req, invoice_number, share_token), seen),
        items   |-> [k \in ids |-> StoredItem(bubble_id, seen[k])]]

\* A request is served and answered.
Respond(op, target, code) ==
    /\ served' = served + 1
    /\ last' = [op |-> op, target |-> target, code |-> code]

\* A build that draws a share token and then fails.
create_on_the_fly_token_first(req) ==
    /\ fresh' = [fresh EXCEPT !.token = @ + 1]
    /\ Respond("create_on_the_fly", 0, 400)
    /\ UNCHANGED <<inv, items, payments, customers, shareVars, raceVars>>

\* POST /api/v1/invoices/on-the-fly, run without interleaving.  After the
\* commit the build adds one audit_log row (action create_on_the_fly, no
\* old values, the new invoice as new values).  A package
\* that is not found raises ValueError before anything is written; the
\* route answers it with 400 and the detail "Package not found: ...".
create_on_the_fly(req) ==
    IF req.package_id \notin DOMAIN Package
    THEN /\ Respond("create_on_the_fly", 0, 400)
         /\ UNCHANGED <<ledgerVars, shareVars, raceVars>>
    ELSE LET n    == Len(on_the_fly_items(req))
             rows == on_the_fly_rows(req, fresh.inv, generate_invoice_number(InvoiceNumbers),
                                     fresh.token, fresh.item)
         IN /\ fresh.inv <= MaxInvoices
            /\ fresh.item + n - 1 <= MaxItems
            /\ inv' = inv @@ (fresh.inv :> rows.invoice)
            /\ items' = items @@ rows.items
            /\ customers' = on_the_fly_customers(req)
            /\ fresh' = [fresh EXCEPT !.inv = @ + 1, !.item = @ + n, !.token = @ + 1, !.audit = @ + 1]
            /\ Respond("create_on_the_fly", fresh.inv, 200)
            /\ UNCHANGED <<payments, shareVars, raceVars>>

(***************************************************************************)
(* Item operations (routes add_invoice_item, update_invoice_item,          *)
(* delete_invoice_item and the repository methods they call).              *)
(***************************************************************************)
\* InvoiceRepository.add_item.  The new item is added to the session by
\* invoice_id and is still pending when the totals are calculated, so
\* invoice.items does not show it.
add_item(i, c) ==
    IF i \notin DOMAIN inv
    THEN /\ Respond("add_item", i, 404)
         /\ UNCHANGED <<ledgerVars, shareVars, raceVars>>
    ELSE LET total_price == line_total(c.qty, c.unit_price, c.discount_percent)
             item == [invoice_id       |-> i,
                      description      |-> "item_data.description",
                      qty              |-> c.qty,
                      unit_price       |-> c.unit_price,
                      discount_percent |-> c.discount_percent,
                      total_price      |-> numeric_15_2(total_price),
                      item_type        |-> "package",
                      sort_order       |-> 0]
         IN /\ fresh.item <= MaxItems
            /\ ExactLine(c.qty, c.unit_price, c.discount_percent)
            /\ items' = items @@ (fresh.item :> item)
            /\ inv' = [inv EXCEPT ![i] = calculate_invoice_totals(@, StoredView(ItemsOf(i)))]
            /\ fresh' = [fresh EXCEPT !.item = @ + 1]
            /\ Respond("add_item", i, 201)
            /\ UNCHANGED <<payments, customers, shareVars, raceVars>>

\* setattr(item, key, value) for every key of kwargs whose value is not None
Updated(row, u) ==
    [row EXCEPT !.qty              = IF u.qty = Omitted THEN @ ELSE u.qty,
                !.unit_price       = IF u.unit_price = Omitted THEN @ ELSE u.unit_price,
                !.discount_percent = IF u.discount_percent = Omitted THEN @ ELSE u.discount_percent]

\* InvoiceRepository.update_item.  The item is loaded, so invoice.items
\* shows it with its new in-memory total.
update_item(k, u) ==
    IF k \notin DOMAIN items
    THEN /\ Respond("update_item", k, 404)
         /\ UNCHANGED <<ledgerVars, shareVars, raceVars>>
    ELSE LET item        == Updated(items[k], u)
             total_price == line_total(item.qty, item.unit_price, item.discount_percent)
             i           == item.invoice_id
             seen        == [StoredView(ItemsOf(i)) EXCEPT ![k].total_price = total_price]
         IN /\ ExactLine(item.qty, item.unit_price, item.discount_percent)
            /\ items' = [items EXCEPT ![k] = [item EXCEPT !.total_price = numeric_15_2(total_price)]]
            /\ inv' = [inv EXCEPT ![i] = calculate_invoice_totals(@, seen)]
            /\ Respond("update_item", k, 200)
            /\ UNCHANGED <<payments, customers, fresh, shareVars, raceVars>>

\* InvoiceRepository.delete_item.  The item is only marked deleted when
\* the totals are calculated, so invoice.items still shows it.
delete_item(k) ==
    IF k \notin DOMAIN items
    THEN /\ Respond("delete_item", k, 404)
         /\ UNCHANGED <<ledgerVars, shareVars, raceVars>>
    ELSE LET i == items[k].invoice_id
         IN /\ items' = [j \in DOMAIN items \ {k} |-> items[j]]
            /\ inv' = [inv EXCEPT ![i] = calculate_invoice_totals(@, StoredView(ItemsOf(i)))]
            /\ Respond("delete_item", k, 200)
            /\ UNCHANGED <<payments, customers, fresh, shareVars, raceVars>>

(***************************************************************************)
(* InvoiceRepository.add_payment (route add_payment)                       *)
(***************************************************************************)
\* A payment taken off the paid amount instead of added to it.
paid_amount_reduced(paid_amount, amount) == paid_amount - amount

\* invoice.paid_amount += amount, in pips
\* A payment that replaces the paid amount instead of adding to it.
new_paid_amount_replaced(paid_amount, amount) == amount

new_paid_amount(paid_amount, amount) == paid_amount + amount

\* The status after the payment; paid and total in pips.
payment_status(status, paid_amount, total_amount) ==
    IF paid_amount >= total_amount THEN "paid"
    ELSE IF paid_amount > 0 THEN "partial"
    ELSE status

add_payment(i, amount) ==
    IF i \notin DOMAIN inv
    THEN /\ Respond("add_payment", i, 404)
         /\ UNCHANGED <<ledgerVars, shareVars, raceVars>>
    ELSE LET paid   == new_paid_amount(AsDecimal(inv[i].paid_amount), amount)
             total  == AsDecimal(inv[i].total_amount)
             status == payment_status(inv[i].status, paid, total)
         IN /\ Len(payments) < MaxPayments
            /\ payments' = Append(payments, [invoice_id |-> i, amount |-> numeric_15_2(amount)])
            /\ inv' = [inv EXCEPT ![i].paid_amount = numeric_15_2(paid),
                                  ![i].status      = status,
                                  ![i].paid_at     = IF paid >= total THEN now ELSE @]
            /\ Respond("add_payment", i, 201)
            /\ UNCHANGED <<items, customers, fresh, shareVars, raceVars>>

(***************************************************************************)
(* InvoiceRepository.update and the routes built on it.  The commit is     *)
(* followed by _create_audit_log(..., old_data, invoice.to_dict()), whose  *)
(* json.dumps meets the Decimal columns of to_dict() and raises: the       *)
(* change is stored and the request answers 500.                           *)
(***************************************************************************)
update(op, i, status, stamp) ==
    IF i \notin DOMAIN inv
    THEN /\ Respond(op, i, 404)
         /\ UNCHANGED <<ledgerVars, shareVars, raceVars>>
    ELSE LET changed == [inv[i] EXCEPT !.status = status,
                                     !.sent_at = IF stamp = "sent_at" THEN now ELSE @,
                                     !.paid_at = IF stamp = "paid_at" THEN now ELSE @]
         IN /\ inv' = [inv EXCEPT ![i] = calculate_invoice_totals(changed, StoredView(ItemsOf(i)))]
            /\ Respond(op, i, 500)
            /\ UNCHANGED <<items, payments, customers, fresh, shareVars, raceVars>>

\* InvoiceRepository.delete and its route.  The items, the payments and the
\* invoice are deleted and the deletion is committed; the audit log that
\* follows raises on the Decimal columns of old_data, and the request
\* answers 500.
delete_invoice(i) ==
    IF i \notin DOMAIN inv
    THEN /\ Respond("delete_invoice", i, 404)
         /\ UNCHANGED <<ledgerVars, shareVars, raceVars>>
    ELSE /\ inv' = [j \in DOMAIN inv \ {i} |-> inv[j]]
         /\ items' = [k \in DOMAIN items \ ItemsOf(i) |-> items[k]]
         /\ payments' = SelectSeq(payments, LAMBDA p : p.invoice_id # i)
         /\ Respond("delete_invoice", i, 500)
         /\ UNCHANGED <<customers, fresh, shareVars, raceVars>>

\* POST /{bubble_id}/mark-sent
mark_invoice_sent(i) == update("mark_invoice_sent", i, "sent", "sent_at")

\* POST /{bubble_id}/mark-paid
mark_invoice_paid(i) == update("mark_invoice_paid", i, "paid", "paid_at")

\* PUT /{bubble_id} with InvoiceUpdate.status
update_invoice(i, status) == update("update_invoice", i, status, "none")

(***************************************************************************)
(* Public share link (app/api/public_invoice.py) and the repository        *)
(* methods behind it.  A handler's result is its response together with    *)
(* the tables it leaves behind.                                            *)
(***************************************************************************)
\* get_by_share_token / verify_user_otp returning None
NoInvoice == 0
NoUser    == 0
\* A request without a one-time code.
NoCode    == "none"

\* Share tokens a caller can present; token 0 was never issued.
MaxTokens == 2
TokenIds  == 0..MaxTokens

\* Phones a caller can claim, and the codes generate_otp() can draw.
Phones   == {PhoneA, PhoneADashed, PhoneB}
OtpCodes == {"111111", "222222"}

\* Rows of the "user" table (kept by Auth Hub): id -> authentication::text
UserTable == (7 :> <<"1", "2">>) @@ (8 :> <<"3", "4">>)

\* Rows of the auth_user table: user_id -> row
AuthUser == (7 :> [active |-> TRUE])

\* Rows Auth Hub may hold in otps / auth_hub_otps at one time.
MaxOtps == 1

RECURSIVE format_phone_number(_)
\* re.sub(r"[^\d]", "", phone)
format_phone_number(phone) ==
    IF phone = <<>> THEN <<>>
    ELSE (IF IsDigit(phone[1]) THEN <<phone[1]>> ELSE <<>>) \o format_phone_number(Tail(phone))

\* text LIKE '%pattern%'
Like(text, pattern) ==
    \E k \in 0..(Len(text) - Len(pattern)) : SubSeq(text, k + 1, k + Len(pattern)) = pattern

\* SELECT id FROM "user" WHERE authentication::text LIKE '%whatsapp%':
\* the rows LIMIT 1 may return.
users_like(whatsapp) == {u \in DOMAIN UserTable : Like(UserTable[u], whatsapp)}

\* The lookup of a share token that only asks whether sharing is enabled.
share_token_never_expiring(share_token) ==
    LET matching == {i \in DOMAIN inv : inv[i].share_token = share_token}
    IN IF matching = {} THEN NoInvoice
       ELSE LET invoice == CHOOSE i \in matching : TRUE
            IN IF inv[invoice].share_enabled THEN invoice ELSE NoInvoice

\* InvoiceRepository.get_by_share_token
get_by_share_token(share_token) ==
    LET matching == {i \in DOMAIN inv : inv[i].share_token = share_token}
    IN IF matching = {} THEN NoInvoice
       ELSE LET invoice == CHOOSE i \in matching : TRUE
            IN IF inv[invoice].share_enabled
               THEN IF inv[invoice].share_expires_at # Never
                       /\ inv[invoice].share_expires_at < now
                    THEN NoInvoice
                    ELSE invoice
               ELSE NoInvoice

\* A view recorded on every invoice.
record_view_every_invoice(bubble_id) ==
    [i \in DOMAIN inv |-> [inv[i] EXCEPT !.viewed_at = now,
                                        !.share_access_count = @ + 1]]

\* InvoiceRepository.record_view
record_view(bubble_id) ==
    [inv EXCEPT ![bubble_id].viewed_at = now,
                ![bubble_id].share_access_count = @ + 1]

NotFoundDetail == "Invoice not found or link expired"

\* GET /view/{share_token}
view_shared_invoice_result(share_token) ==
    LET invoice == get_by_share_token(share_token)
    IN IF invoice = NoInvoice
       THEN [code |-> 404, detail |-> NotFoundDetail, shown |-> NoInvoice, inv |-> inv]
       ELSE [code |-> 200, detail |-> "invoice", shown |-> invoice, inv |-> record_view(invoice)]

\* GET /view/{share_token}/pdf; rendered: generate_invoice_pdf did not raise.
download_invoice_pdf_result(share_token, rendered) ==
    LET invoice == get_by_share_token(share_token)
    IN IF invoice = NoInvoice
       THEN [code |-> 404, detail |-> NotFoundDetail, shown |-> NoInvoice]
       ELSE IF rendered
            THEN [code |-> 200, detail |-> "application/pdf", shown |-> invoice]
            ELSE [code |-> 500, detail |-> "Failed to generate PDF", shown |-> NoInvoice]

\* POST /edit/{share_token}; otp_code: the code generate_otp() drew,
\* delivered: what whatsapp_service.send_otp returned.
request_edit_access_result(share_token, phone, otp_code, delivered) ==
    LET invoice == get_by_share_token(share_token)
    IN IF invoice = NoInvoice
       THEN [code |-> 404, detail |-> NotFoundDetail, sent |-> sent]
       ELSE IF inv[invoice].customer_phone_snapshot # NoPhone
               /\ format_phone_number(phone)
                     # format_phone_number(inv[invoice].customer_phone_snapshot)
            THEN [code |-> 403, detail |-> "Phone number does not match customer's phone number",
                  sent |-> sent]
            \* get_or_create_user_by_whatsapp raises ValueError
            ELSE IF users_like(phone) = {}
                 THEN [code |-> 500, detail |-> "Internal Server Error", sent |-> sent]
                 \* set_user_otp stores nothing; the code goes to WhatsApp
                 ELSE [code   |-> IF delivered THEN 200 ELSE 500,
                       detail |-> IF delivered THEN "OTP sent to your WhatsApp"
                                  ELSE "Failed to send OTP",
                       sent   |-> sent \cup {[phone |-> phone, otp_code |-> otp_code]}]

\* A one-time code check that only asks whether the phone has a user.
verify_user_otp_unchecked(whatsapp, otp_code) ==
    IF users_like(whatsapp) = {} THEN {NoUser} ELSE users_like(whatsapp)

\* AuthRepository.verify_user_otp: the values it may return (LIMIT 1 picks
\* any matching row).
verify_user_otp(whatsapp, otp_code) ==
    IF users_like(whatsapp) = {} THEN {NoUser}
    ELSE LET rows == {o \in otps : o.phone_number = whatsapp /\ o.code = otp_code}
         IN IF rows = {} THEN {NoUser}
            ELSE {IF o.expires_at # Never /\ now > o.expires_at THEN NoUser ELSE u :
                     o \in rows, u \in users_like(whatsapp)}

\* create_access_token(data, timedelta(hours=1)): the hour ends within the
\* day of issue.
edit_token(user, invoice) ==
    [sub |-> user, edit_invoice |-> invoice, scope |-> "invoice_edit", exp |-> now]

\* POST /edit/{share_token}/verify.  The handler reads the module global
\* AuthRepository (line 218), which public_invoice.py itself binds only as
\* a local of request_edit_access (line 177): where the global is not
\* bound (imported = FALSE, the module as shipped) the read raises
\* NameError and the request answers 500; imported = TRUE is the handler
\* with the name bound as in request_edit_access.
\* user: what verify_user_otp returned.
verify_edit_access_result(share_token, phone, otp_code, user, imported) ==
    IF ~imported
    THEN [code |-> 500, detail |-> "Internal Server Error", credentials |-> credentials]
    ELSE IF user = NoUser
    THEN [code |-> 401, detail |-> "Invalid or expired OTP", credentials |-> credentials]
    ELSE LET invoice == get_by_share_token(share_token)
         IN IF invoice = NoInvoice
            THEN [code |-> 404, detail |-> NotFoundDetail, credentials |-> credentials]
            ELSE [code |-> 200, detail |-> "Edit access granted. Valid for 1 hour.",
                  credentials |-> credentials \cup {edit_token(user, invoice)}]

\* What a public request addressed.
PublicRequest(share_token, phone, otp_code) ==
    [share_token |-> share_token, phone |-> phone, otp_code |-> otp_code]

view_shared_invoice(share_token) ==
    LET r == view_shared_invoice_result(share_token)
    IN /\ inv' = r.inv
       /\ Respond("view_shared_invoice", PublicRequest(share_token, NoPhone, NoCode), r.code)
       /\ UNCHANGED <<items, payments, customers, fresh, shareVars, accepted, raceVars>>

download_invoice_pdf(share_token, rendered) ==
    LET r == download_invoice_pdf_result(share_token, rendered)
    IN /\ Respond("download_invoice_pdf", PublicRequest(share_token, NoPhone, NoCode), r.code)
       /\ UNCHANGED <<ledgerVars, shareVars, accepted, raceVars>>

request_edit_access(share_token, phone, otp_code, delivered) ==
    LET r == request_edit_access_result(share_token, phone, otp_code, delivered)
    IN /\ sent' = r.sent
       /\ Respond("request_edit_access", PublicRequest(share_token, phone, NoCode), r.code)
       /\ UNCHANGED <<ledgerVars, now, otps, credentials, accepted, raceVars>>

verify_edit_access(share_token, phone, otp_code, imported) ==
    \E user \in verify_user_otp(phone, otp_code) :
        LET r == verify_edit_access_result(share_token, phone, otp_code, user, imported)
        IN /\ credentials' = r.credentials
           /\ Respond("verify_edit_access", PublicRequest(share_token, phone, otp_code), r.code)
           /\ UNCHANGED <<ledgerVars, now, otps, sent, accepted, raceVars>>

\* What a share-link request asked for.
ShareRequest(bubble_id, expires_in_days) ==
    [bubble_id |-> bubble_id, expires_in_days |-> expires_in_days]

\* A share link renewed under the token it already has.
generate_share_link_same_token(bubble_id, expires_in_days) ==
    IF bubble_id \notin DOMAIN inv
    THEN /\ Respond("generate_share_link", ShareRequest(bubble_id, expires_in_days), 404)
         /\ UNCHANGED <<ledgerVars, shareVars, raceVars>>
    ELSE /\ fresh.token <= MaxTokens
         /\ inv' = [inv EXCEPT
                ![bubble_id].share_enabled = TRUE,
                ![bubble_id].share_expires_at =
                    now + (IF Truthy(expires_in_days) THEN expires_in_days
                           ELSE SHARE_LINK_EXPIRY_DAYS)]
         /\ fresh' = [fresh EXCEPT !.token = @ + 1]
         /\ Respond("generate_share_link", ShareRequest(bubble_id, expires_in_days), 500)
         /\ UNCHANGED <<items, payments, customers, shareVars, raceVars>>

\* InvoiceRepository.generate_share_link and its route: the new token is
\* committed, then the route reads the undefined name request and the
\* request answers 500.
generate_share_link(bubble_id, expires_in_days) ==
    IF bubble_id \notin DOMAIN inv
    THEN /\ Respond("generate_share_link", ShareRequest(bubble_id, expires_in_days), 404)
         /\ UNCHANGED <<ledgerVars, shareVars, raceVars>>
    ELSE /\ fresh.token <= MaxTokens
         /\ inv' = [inv EXCEPT
                ![bubble_id].share_token = fresh.token,
                ![bubble_id].share_enabled = TRUE,
                ![bubble_id].share_expires_at =
                    now + (IF Truthy(expires_in_days) THEN expires_in_days
                           ELSE SHARE_LINK_EXPIRY_DAYS)]
         /\ fresh' = [fresh EXCEPT !.token = @ + 1]
         /\ Respond("generate_share_link", ShareRequest(bubble_id, expires_in_days), 500)
         /\ UNCHANGED <<items, payments, customers, shareVars, raceVars>>

\* get_current_user for a bearer token made by verify_edit_access: the
\* user_id of the AuthUser it returns, or NoUser for credentials_exception.
get_current_user(token) ==
    \* decode_access_token: jwt.decode rejects a token past its exp
    IF now > token.exp THEN NoUser
    ELSE LET user_id == token.sub
         IN \* an unknown user is created only from a payload with a phone
            IF user_id \notin DOMAIN AuthUser THEN NoUser
            ELSE IF ~AuthUser[user_id].active THEN NoUser
            ELSE user_id

\* PUT /api/v1/invoices/{bubble_id} with an edit token as bearer.
authorized_update_invoice(token, bubble_id, status) ==
    IF get_current_user(token) = NoUser
    THEN /\ Respond("update_invoice", bubble_id, 401)
         /\ UNCHANGED <<ledgerVars, shareVars, accepted, raceVars>>
    ELSE /\ accepted' = accepted \cup
                {[token |-> token, op |-> "update_invoice", target |-> bubble_id]}
         /\ update_invoice(bubble_id, status)

\* Time passes: the clock is looked at again after more than the life of
\* a share link.
TickDays == {SHARE_LINK_EXPIRY_DAYS + 1}

Tick(days) ==
    /\ now + days <= MaxTime
    /\ now' = now + days
    /\ UNCHANGED <<ledgerVars, otps, sent, credentials, accepted, last, served, raceVars>>

\* Auth Hub writes a one-time code for a phone into its otps table; the
\* code lives for less than a day.
auth_hub_otp(phone, code) ==
    /\ Cardinality(otps) < MaxOtps
    /\ otps' = otps \cup {[phone_number |-> phone, code |-> code, expires_at |-> now]}
    /\ UNCHANGED <<ledgerVars, now, sent, credentials, accepted, last, served, raceVars>>

(***************************************************************************)
(* Concurrent invoice creation.  Every request has its own session and     *)
(* transaction (get_db); the sync route migrate_old_invoices runs in the   *)
(* thread pool beside the event loop that runs create_invoice_on_the_fly,  *)
(* and further server processes share the database.  A transaction reads   *)
(* the rows committed so far (PostgreSQL READ COMMITTED); the unique index *)
(* on invoice_number makes an INSERT wait for an uncommitted row with the  *)
(* same number and fail once such a row is committed.                      *)
(***************************************************************************)
MaxWorkers == 2
Workers    == 1..MaxWorkers

\* Builds without a fixed discount: one or two items each.
RaceBuilds == {req \in BuildRequests : req.discount_fixed = 0 /\ req.package_id \in DOMAIN Package}

Idle == [req |-> None, invoice_number |-> <<>>]

\* create_on_the_fly up to "invoice_number = self._generate_invoice_number()"
build_generate(w, req) ==
    /\ pc[w] = "start"
    /\ pc' = [pc EXCEPT ![w] = "numbered"]
    /\ loc' = [loc EXCEPT ![w] = [req |-> req,
                                  invoice_number |-> generate_invoice_number(InvoiceNumbers)]]
    /\ UNCHANGED <<ledgerVars, shareVars, accepted, last, served>>

\* self.db.add(invoice); self.db.flush(): the INSERT into invoice_new
build_flush(w) ==
    /\ pc[w] = "numbered"
    \* waits while another transaction holds the number uncommitted
    /\ ~\E v \in Workers \ {w} :
           pc[v] = "flushed" /\ loc[v].invoice_number = loc[w].invoice_number
    /\ IF loc[w].invoice_number \in InvoiceNumbers
       THEN \* IntegrityError, answered by the route's "except Exception"
            /\ pc' = [pc EXCEPT ![w] = "start"]
            /\ loc' = [loc EXCEPT ![w] = Idle]
            /\ Respond("create_on_the_fly", 0, 500)
       ELSE /\ pc' = [pc EXCEPT ![w] = "flushed"]
            /\ UNCHANGED <<loc, last, served>>
    /\ UNCHANGED <<ledgerVars, shareVars, accepted>>

\* the items, _calculate_invoice_totals and self.db.commit()
build_commit(w) ==
    LET req  == loc[w].req
        n    == Len(on_the_fly_items(req))
        rows == on_the_fly_rows(req, fresh.inv, loc[w].invoice_number, fresh.token, fresh.item)
    IN /\ pc[w] = "flushed"
       /\ fresh.inv <= MaxInvoices
       /\ fresh.item + n - 1 <= MaxItems
       /\ inv' = inv @@ (fresh.inv :> rows.invoice)
       /\ items' = items @@ rows.items
       /\ customers' = on_the_fly_customers(req)
       /\ fresh' = [fresh EXCEPT !.inv = @ + 1, !.item = @ + n, !.token = @ + 1, !.audit = @ + 1]
       /\ pc' = [pc EXCEPT ![w] = "start"]
       /\ loc' = [loc EXCEPT ![w] = Idle]
       /\ Respond("create_on_the_fly", fresh.inv, 200)
       /\ UNCHANGED <<payments, shareVars, accepted>>

(***************************************************************************)
(* Concurrent payments.  The route add_payment is a sync def: FastAPI runs *)
(* each call on a thread of the pool, with its own session.  The route     *)
(* loads the invoice (a plain SELECT); add_payment then finds the same     *)
(* object in the session, adds the amount to the loaded paid_amount in     *)
(* Python and commits: INSERT of the payment and                           *)
(* UPDATE invoice_new SET paid_amount = <value>, ... WHERE id = ...,       *)
(* which names only the columns whose value differs from the loaded one.   *)
(***************************************************************************)
\* Payments of whole cents: 200.00 and 232.00, in pips.
RacePayments == {a \in PaymentAmounts : a % PipsPerCent = 0}

\* Calls of add_payment that have loaded the invoice and not yet committed.
Loaded == {w \in Workers : pc[w] = "loaded"}

\* The route up to "invoice = invoice_repo.get_by_id(bubble_id)"
pay_load(w, i, amount) ==
    /\ pc[w] = "start"
    /\ IF i \notin DOMAIN inv
       THEN /\ Respond("add_payment", i, 404)
            /\ UNCHANGED <<raceVars>>
       ELSE /\ Len(payments) + Cardinality(Loaded) < MaxPayments
            /\ pc' = [pc EXCEPT ![w] = "loaded"]
            /\ loc' = [loc EXCEPT ![w] = [invoice_id   |-> i,
                                          amount       |-> amount,
                                          paid_amount  |-> inv[i].paid_amount,
                                          total_amount |-> inv[i].total_amount,
                                          status       |-> inv[i].status]]
            /\ UNCHANGED <<last, served>>
    /\ UNCHANGED <<ledgerVars, shareVars, accepted>>

\* InvoiceRepository.add_payment on the loaded object, and its commit
pay_commit(w) ==
    LET i      == loc[w].invoice_id
        paid   == new_paid_amount(AsDecimal(loc[w].paid_amount), loc[w].amount)
        total  == AsDecimal(loc[w].total_amount)
        status == payment_status(loc[w].status, paid, total)
    IN /\ pc[w] = "loaded"
       /\ payments' = Append(payments, [invoice_id |-> i,
                                        amount |-> numeric_15_2(loc[w].amount)])
       /\ inv' = [inv EXCEPT ![i].paid_amount = numeric_15_2(paid),
                             ![i].status      = IF status # loc[w].status THEN status ELSE @,
                             ![i].paid_at     = IF paid >= total THEN now ELSE @]
       /\ pc' = [pc EXCEPT ![w] = "start"]
       /\ loc' = [loc EXCEPT ![w] = Idle]
       /\ Respond("add_payment", i, 201)
       /\ UNCHANGED <<items, customers, fresh, shareVars, accepted>>

(***************************************************************************)
(* The engine run one request at a time.                                   *)
(***************************************************************************)
Init ==
    /\ inv = <<>>
    /\ items = <<>>
    /\ payments = <<>>
    /\ customers = <<>>
    /\ fresh = [inv |-> 1, item |-> 1, token |-> 1, audit |-> 1]
    /\ now = 0
    /\ otps = {}
    /\ sent = {}
    /\ credentials = {}
    /\ accepted = {}
    /\ last = [op |-> "none", target |-> 0, code |-> 0]
    /\ served = 0
    /\ pc = [w \in Workers |-> "start"]
    /\ loc = [w \in Workers |-> Idle]

\* Requests are served while the request budget lasts.
Serving == served < MaxRequests

\* A request of a signed-in member of staff: no edit credential is used.
Staff == Serving /\ UNCHANGED accepted

Next ==
    \/ Staff /\ \E req \in BuildRequests : create_on_the_fly(req)
    \/ Staff /\ \E i \in InvIds, c \in ItemCreates : add_item(i, c)
    \/ Staff /\ \E k \in ItemIds, u \in ItemUpdates : update_item(k, u)
    \/ Staff /\ \E k \in ItemIds : delete_item(k)
    \/ Staff /\ \E i \in InvIds, amount \in PaymentAmounts : add_payment(i, amount)
    \/ Staff /\ \E i \in InvIds : mark_invoice_sent(i)
    \/ Staff /\ \E i \in InvIds : mark_invoice_paid(i)
    \/ Staff /\ \E i \in InvIds, status \in StatusValues : update_invoice(i, status)

Spec == Init /\ [][Next]_vars

(***************************************************************************)
(* The share link and the edit grant: builds, public requests, Auth Hub    *)
(* and the clock.                                                          *)
(***************************************************************************)
EditStatuses == {"cancelled"}

\* Builds of an invoice for a customer given by phone only, or by nothing.
ShareBuilds == {req \in BuildRequests : req.customer_name = None /\ req.package_id = "pkg_a"}

NextShare ==
    \/ Staff /\ \E req \in ShareBuilds : create_on_the_fly(req)
    \/ Staff /\ \E i \in InvIds, expires_in_days \in {Omitted, 1} :
                    generate_share_link(i, expires_in_days)
    \/ Serving /\ \E t \in TokenIds : view_shared_invoice(t)
    \/ Serving /\ \E t \in TokenIds, rendered \in BOOLEAN : download_invoice_pdf(t, rendered)
    \/ Serving /\ \E t \in TokenIds, phone \in Phones, otp_code \in OtpCodes, delivered \in BOOLEAN :
                    request_edit_access(t, phone, otp_code, delivered)
    \/ Serving /\ \E t \in TokenIds, phone \in Phones, otp_code \in OtpCodes, imported \in BOOLEAN :
                    verify_edit_access(t, phone, otp_code, imported)
    \/ Serving /\ \E token \in credentials, i \in InvIds, status \in EditStatuses :
                    authorized_update_invoice(token, i, status)
    \/ \E days \in TickDays : Tick(days)
    \/ \E phone \in {PhoneA, PhoneB}, code \in OtpCodes : auth_hub_otp(phone, code)

SpecShare == Init /\ [][NextShare]_vars

(***************************************************************************)
(* The discount_given string of the route create_invoice_on_the_fly        *)
(* (app/api/invoices.py:173-188), parsed before the route's try block.     *)
(***************************************************************************)
MaxLen == 3

\* Characters of a discount string.
DiscountChars == {"5", "%", " ", "+", "R", "M", ",", "x"}

RECURSIVE StringsUpTo(_)
\* Every string over DiscountChars of length <= n.
StringsUpTo(n) ==
    IF n = 0 THEN {<<>>}
    ELSE LET shorter == StringsUpTo(n - 1)
         IN shorter \cup {Append(t, c) : t \in shorter, c \in DiscountChars}

\* "500 10%", "10%" and "RM1,200"
ExampleDiscounts ==
    { <<"5", "0", "0", " ", "1", "0", "%">>,
      <<"1", "0", "%">>,
      <<"R", "M", "1", ",", "2", "0", "0">> }

DiscountStrings == StringsUpTo(MaxLen) \cup ExampleDiscounts

RECURSIVE split(_, _)
\* discount_str.strip().replace('+', ' ').split(): the parts between runs
\* of blanks and '+'; part is the part being read.
split(s, part) ==
    IF s = <<>> THEN (IF part = <<>> THEN <<>> ELSE <<part>>)
    ELSE IF s[1] \in {" ", "+"}
         THEN (IF part = <<>> THEN <<>> ELSE <<part>>) \o split(Tail(s), <<>>)
         ELSE split(Tail(s), Append(part, s[1]))

\* '%' in part
Contains(part, c) == \E k \in 1..Len(part) : part[k] = c

\* The parsed pair, in whole ringgit and whole percent; raised: an
\* exception left the loop.
NothingParsed == [raised |-> FALSE, discount_fixed |-> 0, discount_percent |-> 0]

\* Decimal(text) is int(text) for the characters used here.
\* One turn of "for part in parts": the percent branch calls Decimal
\* outside any try, the fixed branch inside try/except: pass.
parse_part(acc, part) ==
    IF acc.raised THEN acc
    ELSE IF Contains(part, "%")
    THEN LET value == int(str_replace(part, <<"%">>))
         IN IF value = Omitted THEN [acc EXCEPT !.raised = TRUE]
            ELSE [acc EXCEPT !.discount_percent = value]
    ELSE LET value == int(str_replace(str_replace(part, <<"R", "M">>), <<",">>))
         IN IF value = Omitted THEN acc ELSE [acc EXCEPT !.discount_fixed = value]

RECURSIVE parse_parts(_, _)
parse_parts(acc, parts) ==
    IF parts = <<>> THEN acc ELSE parse_parts(parse_part(acc, Head(parts)), Tail(parts))

\* "if request_data.discount_given:" and the loop over its parts
parse_discount_given(discount_given) ==
    IF discount_given = <<>> THEN NothingParsed
    ELSE parse_parts(NothingParsed, split(discount_given, <<>>))

\* A request arrives with its discount_given.
InitParse ==
    /\ inv = <<>>
    /\ items = <<>>
    /\ payments = <<>>
    /\ customers = <<>>
    /\ fresh = [inv |-> 1, item |-> 1, token |-> 1, audit |-> 1]
    /\ now = 0
    /\ otps = {}
    /\ sent = {}
    /\ credentials = {}
    /\ accepted = {}
    /\ \E discount_given \in DiscountStrings :
           last = [op |-> "discount_given", target |-> discount_given, code |-> NothingParsed]
    /\ served = 0
    /\ pc = [w \in Workers |-> "start"]
    /\ loc = [w \in Workers |-> Idle]

\* The route parses the string.
parse_request ==
    /\ last.op = "discount_given"
    /\ last' = [op |-> "parse_discount_given", target |-> last.target,
                code |-> parse_discount_given(last.target)]
    /\ UNCHANGED <<ledgerVars, shareVars, accepted, served, raceVars>>

NextParse ==
    \/ parse_request

SpecParse == InitParse /\ [][NextParse]_vars

(***************************************************************************)
(* Builds with every voucher code.                                         *)
(***************************************************************************)
VoucherBuilds ==
    { [package_id |-> p, discount_fixed |-> 0, discount_percent |-> 0,
       apply_sst |-> TRUE, voucher_code |-> v, agent_markup |-> 0,
       customer_name |-> None, customer_phone |-> NoPhone,
       epp_fee_amount |-> Omitted, epp_fee_description |-> None,
       template_id |-> None] :
      p \in DOMAIN Package, v \in VoucherCodes }

NextVoucher ==
    \/ Staff /\ \E req \in VoucherBuilds : create_on_the_fly(req)

SpecVoucher == Init /\ [][NextVoucher]_vars

(***************************************************************************)
(* Builds with and without a template.                                     *)
(***************************************************************************)
TemplateBuilds ==
    { [package_id |-> p, discount_fixed |-> 0, discount_percent |-> 0,
       apply_sst |-> a, voucher_code |-> None, agent_markup |-> 0,
       customer_name |-> None, customer_phone |-> NoPhone,
       epp_fee_amount |-> Omitted, epp_fee_description |-> None,
       template_id |-> t] :
      p \in DOMAIN Package, a \in BOOLEAN, t \in {None} \cup DOMAIN Template }

NextTemplate ==
    \/ Staff /\ \E req \in TemplateBuilds : create_on_the_fly(req)

SpecTemplate == Init /\ [][NextTemplate]_vars

(***************************************************************************)
(* The share link looked at day by day: the clock can stand exactly at the *)
(* expiry of a link.                                                       *)
(***************************************************************************)
\* One day, and the life of a link less one day.
ExpiryTicks == {1, SHARE_LINK_EXPIRY_DAYS - 1}

NextExpiry ==
    \/ Staff /\ \E req \in ShareBuilds : create_on_the_fly(req)
    \/ Staff /\ \E i \in InvIds, expires_in_days \in {Omitted, 0, 1} :
                    generate_share_link(i, expires_in_days)
    \/ Serving /\ \E t \in TokenIds : view_shared_invoice(t)
    \/ \E days \in ExpiryTicks : Tick(days)

SpecExpiry == Init /\ [][NextExpiry]_vars

(***************************************************************************)
(* Builds that run side by side.                                           *)
(***************************************************************************)
NextRace ==
    \/ Serving /\ \E w \in Workers, req \in RaceBuilds : build_generate(w, req)
    \/ \E w \in Workers : build_flush(w)
    \/ \E w \in Workers : build_commit(w)

SpecRace == Init /\ [][NextRace]_vars

(***************************************************************************)
(* Payments that run side by side, on invoices built beforehand.           *)
(***************************************************************************)
\* Builds for a customer given by phone only, or by nothing.
PayBuilds == {req \in BuildRequests : req.customer_name = None}

NextPay ==
    \/ Staff /\ \E req \in PayBuilds : create_on_the_fly(req)
    \/ Serving /\ \E w \in Workers, i \in InvIds, amount \in RacePayments : pay_load(w, i, amount)
    \/ \E w \in Workers : pay_commit(w)

SpecPay == Init /\ [][NextPay]_vars

(***************************************************************************)
(* Builds and deletions, one request at a time.                            *)
(***************************************************************************)
NextNumber ==
    \/ Staff /\ \E req \in PayBuilds : create_on_the_fly(req)
    \/ Staff /\ \E i \in InvIds : delete_invoice(i)

SpecNumber == Init /\ [][NextNumber]_vars

(***************************************************************************)
(* Payments and public views on invoices that have items and share links. *)
(***************************************************************************)
NextFrame ==
    \/ Staff /\ \E req \in PayBuilds : create_on_the_fly(req)
    \/ Staff /\ \E i \in InvIds, amount \in PaymentAmounts : add_payment(i, amount)
    \/ Staff /\ \E i \in InvIds, expires_in_days \in {Omitted, 1} :
                    generate_share_link(i, expires_in_days)
    \/ Serving /\ \E t \in TokenIds : view_shared_invoice(t)

SpecFrame == Init /\ [][NextFrame]_vars

(***************************************************************************)
(* Properties of the ledger (specification Spec).                          *)
(***************************************************************************)
\* The stored total_price of the rows of invoice i, summed.
StoredItemSum(i) == SumOver([k \in ItemsOf(i) |-> items[k].total_price], ItemsOf(i))

\* C1: in every reachable state every invoice's stored total_amount equals
\* its stored subtotal plus its stored sst_amount, and its stored subtotal
\* equals the sum of the stored total_price of the items that belong to it.
C1_TotalReconciliation ==
    \A i \in DOMAIN inv :
        /\ inv[i].total_amount = inv[i].subtotal + inv[i].sst_amount
        /\ inv[i].subtotal = StoredItemSum(i)

\* C2: in every reachable state an invoice has status paid exactly when its
\* paid_amount is at least its total_amount.
C2_PaidIffCovered ==
    \A i \in DOMAIN inv :
        (inv[i].status = "paid") <=> (inv[i].paid_amount >= inv[i].total_amount)

\* C3: every accepted add_payment leaves the stored paid_amount of every
\* invoice at least what it was before the call.
C3_PaymentNeverDecreasesPaid ==
    [][(last'.op = "add_payment" /\ last'.code = 201)
          => \A i \in DOMAIN inv : inv'[i].paid_amount >= inv[i].paid_amount]_vars

\* Two payments were accepted, the last one on an invoice whose paid_amount
\* is now positive.
C3_TwoPaymentsApplied ==
    /\ Len(payments) = 2
    /\ last.op = "add_payment" /\ last.code = 201
    /\ inv[last.target].paid_amount > 0

\* C4: every discount or voucher item has total_price <= 0 and every
\* package or epp_fee item has total_price >= 0.
C4_SignInvariant ==
    \A k \in DOMAIN items :
        /\ items[k].item_type \in {"discount", "voucher"} => items[k].total_price <= 0
        /\ items[k].item_type \in {"package", "epp_fee"} => items[k].total_price >= 0

\* C12: after every totals recalculation the stored sst_amount is 0 when the
\* stored subtotal is <= 0 and otherwise subtotal * sst_rate / 100 rounded
\* half up to the cent, and the stored total_amount is subtotal + sst_amount.
C12_TaxOfSubtotal ==
    \A i \in DOMAIN inv :
        /\ inv[i].sst_amount =
               IF inv[i].subtotal <= 0 THEN 0
               ELSE (2 * inv[i].subtotal * inv[i].sst_rate + 100) \div 200
        /\ inv[i].total_amount = inv[i].subtotal + inv[i].sst_amount

\* C13: every build on the fly stores one package item, whose unit_price is
\* the package price plus the markup, and beside it only discount, voucher
\* and fee items described by the discount, the voucher code or the fee:
\* no item has the markup as its kind or in its description.
C13_MarkupFoldedIntoPackage ==
    [][(served' = served + 1 /\ last'.op = "create_on_the_fly" /\ last'.code = 200)
          => LET i    == last'.target
                 rows == {k \in DOMAIN items' : items'[k].invoice_id = i}
                 pkgs == {k \in rows : items'[k].item_type = "package"}
             IN /\ Cardinality(pkgs) = 1
                /\ \A k \in pkgs :
                       /\ items'[k].unit_price
                             = Package[inv'[i].package_id].price + inv'[i].agent_markup
                       /\ items'[k].description = "package.invoice_desc"
                /\ \A k \in rows \ pkgs :
                       \/ /\ items'[k].item_type = "discount"
                          /\ items'[k].description \in {"Discount (RM {discount_fixed})",
                                                        "Discount ({discount_percent}%)"}
                       \/ /\ items'[k].item_type = "voucher"
                          /\ items'[k].description = "Voucher ({voucher_code})"
                       \/ /\ items'[k].item_type = "epp_fee"
                          /\ items'[k].description
                                = "Bank Processing Fee ({epp_fee_description})"
      ]_vars

\* An invoice was just built with a markup, a discount, a voucher and a fee.
C13_BuiltWithMarkup ==
    /\ last.op = "create_on_the_fly" /\ last.code = 200
    /\ inv[last.target].agent_markup > 0
    /\ Cardinality({k \in DOMAIN items : items[k].invoice_id = last.target}) = 4

\* C14: after each accepted add_payment, whatever the status was before,
\* the invoice is paid, with paid_at stamped, if its new paid_amount is at
\* least its total_amount, and partial if its new paid_amount is positive
\* and below its total_amount.
C14_StatusFollowsPayment ==
    [][(served' = served + 1 /\ last'.op = "add_payment" /\ last'.code = 201)
          => LET invoice == inv'[last'.target]
             IN /\ invoice.paid_amount >= invoice.total_amount
                      => (invoice.status = "paid" /\ invoice.paid_at = now)
                /\ (0 < invoice.paid_amount /\ invoice.paid_amount < invoice.total_amount)
                      => invoice.status = "partial"
      ]_vars

C22_EveryMutationAudited ==
    [][(<<inv, items, payments>>' # <<inv, items, payments>>)
          => fresh'.audit = fresh.audit + 1
      ]_vars

\* C26: every status change follows a listed transition: mark-sent changes
\* the status only of a draft invoice, and no operation moves an invoice that
\* is viewed, partial or paid back to sent or draft.
C26_StatusFollowsTransitions ==
    [][\A i \in DOMAIN inv \cap DOMAIN inv' :
          inv'[i].status # inv[i].status
              => /\ last'.op = "mark_invoice_sent" => inv[i].status = "draft"
                 /\ inv[i].status \in {"viewed", "partial", "paid"}
                        => inv'[i].status \notin {"sent", "draft"}
      ]_vars

(***************************************************************************)
(* Properties of the share link and the edit grant (specification          *)
(* SpecShare).                                                             *)
(***************************************************************************)
\* Tokens of invoices whose share is disabled or expired, and tokens that
\* no invoice holds.
ClosedTokens ==
    {t \in TokenIds : \E i \in DOMAIN inv :
        /\ inv[i].share_token = t
        /\ \/ ~inv[i].share_enabled
           \/ inv[i].share_expires_at # Never /\ inv[i].share_expires_at < now}

UnknownTokens == {t \in TokenIds : \A i \in DOMAIN inv : inv[i].share_token # t}

C9_RequestEditIssuesCode ==
    [][(served' = served + 1 /\ last'.op = "request_edit_access")
          => \A i \in DOMAIN inv :
                 (/\ inv[i].share_token = last'.target.share_token
                  /\ inv[i].share_enabled
                  /\ (inv[i].share_expires_at = Never \/ inv[i].share_expires_at >= now))
                 => IF /\ inv[i].customer_phone_snapshot # NoPhone
                       /\ format_phone_number(last'.target.phone)
                             # format_phone_number(inv[i].customer_phone_snapshot)
                    THEN last'.code = 403 /\ sent' = sent /\ otps' = otps
                    ELSE \E c \in sent' \ sent : c.phone = last'.target.phone
      ]_vars

\* C15: a successful opening of the share link of an invoice that is draft
\* or sent and was not opened before leaves it viewed; an opening of an
\* invoice opened before adds one to its view counter and keeps its status.
C15_FirstViewMarksViewed ==
    [][(served' = served + 1 /\ last'.op = "view_shared_invoice" /\ last'.code = 200)
          => \A i \in DOMAIN inv :
                 inv[i].share_token = last'.target.share_token
                     => /\ inv'[i].share_access_count = inv[i].share_access_count + 1
                        /\ IF inv[i].share_access_count = 0
                           THEN inv[i].status \in {"draft", "sent"}
                                    => inv'[i].status = "viewed"
                           ELSE inv'[i].status = inv[i].status
      ]_vars

\* C28: generate_share_link gives the invoice a token other than the one it
\* had; from then on the old token finds no invoice and the new one finds
\* this invoice.  A view, a PDF download and a request for edit access
\* under a token that is the share token of no invoice answer 404, a
\* verification under it issues no credential, and none of them changes
\* an invoice or sends a code.
C28_OldTokenNoLongerResolves ==
    [][/\ (served' = served + 1 /\ last'.op = "generate_share_link" /\ last'.code # 404)
            => \E i \in DOMAIN inv, old \in TokenIds :
                   /\ i = last'.target.bubble_id
                   /\ old = inv[i].share_token
                   /\ inv'[i].share_token # old
                   /\ get_by_share_token(old)' = NoInvoice
                   /\ \E new \in TokenIds :
                          new = inv'[i].share_token /\ get_by_share_token(new)' = i
       /\ (/\ served' = served + 1
           /\ last'.op \in {"view_shared_invoice", "download_invoice_pdf",
                             "request_edit_access", "verify_edit_access"}
           /\ \A i \in DOMAIN inv : inv[i].share_token # last'.target.share_token)
            => /\ last'.code # 200
               /\ last'.op # "verify_edit_access" => last'.code = 404
               /\ UNCHANGED <<inv, sent, credentials>>
      ]_vars

\* The token an invoice was built with is presented after the invoice got
\* a new one, and the view is answered 404.
C28_OldTokenPresented ==
    /\ last.op = "view_shared_invoice"
    /\ last.code = 404
    /\ last.target.share_token \in 1..(fresh.token - 1)
    /\ \E i \in DOMAIN inv :
           /\ inv[i].share_token > last.target.share_token
           /\ get_by_share_token(inv[i].share_token) = i
           /\ \A j \in DOMAIN inv : inv[j].share_token # last.target.share_token

C16_ResolvesOnlyBeforeExpiry ==
    [][(served' = served + 1 /\ last'.op = "view_shared_invoice" /\ last'.code = 200)
          => /\ get_by_share_token(last'.target.share_token) # NoInvoice
             /\ \E i \in DOMAIN inv :
                    /\ inv[i].share_token = last'.target.share_token
                    /\ inv[i].share_enabled
                    /\ inv[i].share_expires_at # Never
                    /\ now < inv[i].share_expires_at
      ]_vars

\* C17: generate_share_link on an invoice enables its share, sets its expiry
\* to now plus the days asked for, whatever their number, or to now plus
\* the default life when none was given, and stores a token that no
\* invoice held and that was not issued before.
C17_ShareLinkIssued ==
    [][(/\ served' = served + 1
        /\ last'.op = "generate_share_link"
        /\ last'.target.bubble_id \in DOMAIN inv)
          => LET i    == last'.target.bubble_id
                 days == last'.target.expires_in_days
             IN /\ inv'[i].share_enabled
                /\ inv'[i].share_expires_at
                      = now + (IF days = Omitted THEN SHARE_LINK_EXPIRY_DAYS ELSE days)
                /\ \A j \in DOMAIN inv : inv'[i].share_token # inv[j].share_token
                /\ \A t \in 1..(fresh.token - 1) : inv'[i].share_token # t
      ]_vars

(***************************************************************************)
(* Properties of builds with a voucher (specification SpecVoucher).        *)
(***************************************************************************)
\* C18: a build with the code of an active voucher stores a voucher item of
\* the voucher's discount_amount whenever the voucher has one, whatever its
\* discount_percent; else one of package price * discount_percent / 100
\* when the voucher has a percent; else none.  A build with an unknown or
\* inactive code, or with no code, succeeds and stores no voucher item.
C18_VoucherAmount ==
    [][(served' = served + 1 /\ last'.op = "create_on_the_fly" /\ last'.target \in DOMAIN inv')
          => LET i       == last'.target
                 code    == inv'[i].voucher_code
                 price   == Package[inv'[i].package_id].price
                 stored  == {k \in DOMAIN items' : /\ items'[k].invoice_id = i
                                                   /\ items'[k].item_type = "voucher"}
             IN IF code \in DOMAIN Voucher /\ Voucher[code].active
                THEN LET voucher == Voucher[code]
                     IN IF voucher.discount_amount # Omitted
                        THEN /\ \A k \in stored :
                                    items'[k].total_price = -voucher.discount_amount
                             /\ voucher.discount_amount > 0 => Cardinality(stored) = 1
                        ELSE IF voucher.discount_percent # Omitted
                        THEN /\ Cardinality(stored) = 1
                             /\ \A k \in stored :
                                    items'[k].total_price
                                       = -numeric_15_2(price * voucher.discount_percent)
                        ELSE stored = {}
                ELSE last'.code = 200 /\ stored = {}
      ]_vars

(***************************************************************************)
(* Properties of the discount string (specification SpecParse).            *)
(***************************************************************************)
\* C19: parsing a discount string raises for no input; "500 10%" gives
\* (500, 10), "10%" gives (0, 10) and "RM1,200" gives (1200, 0).
C19_ParseNeverRaises ==
    last.op = "parse_discount_given" =>
        /\ ~last.code.raised
        /\ last.target = <<"5", "0", "0", " ", "1", "0", "%">>
               => (last.code.discount_fixed = 500 /\ last.code.discount_percent = 10)
        /\ last.target = <<"1", "0", "%">>
               => (last.code.discount_fixed = 0 /\ last.code.discount_percent = 10)
        /\ last.target = <<"R", "M", "1", ",", "2", "0", "0">>
               => (last.code.discount_fixed = 1200 /\ last.code.discount_percent = 0)

(***************************************************************************)
(* Properties of builds against a template (specification SpecTemplate).   *)
(***************************************************************************)
\* C24: an invoice built against a template whose apply_sst flag is false,
\* the template being the one named or else the default one, has sst_rate 0
\* and sst_amount 0, whatever apply_sst the caller gave.
C24_TemplateSwitchesTaxOff ==
    [][(served' = served + 1 /\ last'.op = "create_on_the_fly" /\ last'.code = 200)
          => LET invoice  == inv'[last'.target]
                 template == IF invoice.template_id # None THEN invoice.template_id
                             ELSE CHOOSE t \in DOMAIN Template : Template[t].is_default
             IN (template \in DOMAIN Template /\ ~Template[template].apply_sst)
                    => (invoice.sst_rate = 0 /\ invoice.sst_amount = 0)
      ]_vars

(***************************************************************************)
(* Properties of numbering (specification SpecNumber).                     *)
(***************************************************************************)
\* C25: with builds and deletions served one at a time, every generated
\* invoice number is the prefix and a zero-padded suffix that is one more
\* than the largest suffix issued so far (1 for the first): the k-th number
\* generated has suffix k, and it is the number of no stored invoice.
C25_NumbersIncrease ==
    [][(served' = served + 1 /\ last'.op = "create_on_the_fly" /\ last'.code = 200)
          => /\ inv'[last'.target].invoice_number
                   = INVOICE_NUMBER_PREFIX \o zfill(str(fresh.inv), INVOICE_NUMBER_LENGTH)
             /\ inv'[last'.target].invoice_number \notin InvoiceNumbers
      ]_vars

(***************************************************************************)
(* Properties of payments and views (specification SpecFrame).             *)
(***************************************************************************)
\* C30: a payment and a public view change no line item and, on every
\* invoice, neither the subtotal, the tax amount, the total, the invoice
\* number nor the share token and its expiry; an invoice other than the one
\* paid or viewed keeps every field.
C30_PaymentAndViewFrame ==
    [][(served' = served + 1 /\ last'.op \in {"add_payment", "view_shared_invoice"})
          => LET applied == IF last'.op = "add_payment" THEN last'.target
                            ELSE get_by_share_token(last'.target.share_token)
             IN /\ items' = items
                /\ DOMAIN inv' = DOMAIN inv
                /\ \A i \in DOMAIN inv :
                       /\ inv'[i].subtotal = inv[i].subtotal
                       /\ inv'[i].sst_amount = inv[i].sst_amount
                       /\ inv'[i].total_amount = inv[i].total_amount
                       /\ inv'[i].invoice_number = inv[i].invoice_number
                       /\ inv'[i].share_token = inv[i].share_token
                       /\ inv'[i].share_enabled = inv[i].share_enabled
                       /\ inv'[i].share_expires_at = inv[i].share_expires_at
                       /\ i # applied => inv'[i] = inv[i]
      ]_vars

\* A view is answered with one of two invoices, of which one has a payment.
C30_ViewedBesidePaidInvoice ==
    /\ last.op = "view_shared_invoice"
    /\ last.code = 200
    /\ Cardinality(DOMAIN inv) = 2
    /\ Len(payments) > 0
    /\ items # <<>>

(***************************************************************************)
(* Properties of concurrent builds (specification SpecRace).               *)
(***************************************************************************)
\* C10: two builds in progress at the same time never hold the same
\* generated invoice number, and no two stored invoices carry the same
\* number.
C10_NumbersNeverShared ==
    /\ \A v, w \in Workers :
           (v # w /\ pc[v] # "start" /\ pc[w] # "start")
               => loc[v].invoice_number # loc[w].invoice_number
    /\ \A i, j \in DOMAIN inv : i # j => inv[i].invoice_number # inv[j].invoice_number

(***************************************************************************)
(* Properties of concurrent payments (specification SpecPay).              *)
(***************************************************************************)
\* The stored amounts of the payments of invoice i, summed.
PaymentsSum(i) ==
    LET mine == {k \in 1..Len(payments) : payments[k].invoice_id = i}
    IN SumOver([k \in mine |-> payments[k].amount], mine)

\* C27: with requests served one at a time, the paid_amount of every invoice
\* is the sum of the amounts of its payment records, zero when it has none.
C27_PaidIsSumOfPayments ==
    \A i \in DOMAIN inv : inv[i].paid_amount = PaymentsSum(i)

\* An invoice with two payments that was then marked sent or paid.
C27_TwoPaymentsThenMarked ==
    /\ last.op \in {"mark_invoice_sent", "mark_invoice_paid", "update_invoice"}
    /\ last.target \in DOMAIN inv
    /\ Cardinality({k \in 1..Len(payments) : payments[k].invoice_id = last.target}) >= 2
    /\ inv[last.target].paid_amount > 0

\* C11: once the add_payment calls on an invoice have all returned, however
\* they interleaved, its paid_amount is its initial paid_amount (zero) plus
\* the amounts paid, and its status is the one derived from that
\* paid_amount against total_amount.
C11_NoLostPayment ==
    (Loaded = {}) =>
        \A i \in DOMAIN inv :
            /\ inv[i].paid_amount = PaymentsSum(i)
            /\ PaymentsSum(i) > 0 =>
                   inv[i].status = payment_status(inv[i].status, inv[i].paid_amount,
                                                  inv[i].total_amount)

\* C21: a build whose INSERT fails because its generated number is already
\* stored takes a new number and tries again, a bounded number of times; a
\* build that gives up on such a collision answers with a Conflict (409),
\* not with a generic failure.
C21_CollisionRetriedOrConflict ==
    [][\A w \in Workers :
          (pc[w] = "numbered" /\ loc[w].invoice_number \in InvoiceNumbers /\ pc'[w] # pc[w])
              => \/ pc'[w] = "numbered" /\ loc'[w].invoice_number \notin InvoiceNumbers
                 \/ pc'[w] = "start" /\ served' = served + 1 /\ last'.code = 409
      ]_vars

====
